---------------------------- MODULE Spec2Model ----------------------------
(***************************************************************************)
(* Model of polynomial.py: the expression classes X, Int, Add, Mul, Sub    *)
(* and Div with their three methods evaluate, simplify and __repr__.       *)
(*                                                                         *)
(* An expression object is a record carrying its class in the field tag.   *)
(* A raised Python exception is the record [raise |-> <exception name>];   *)
(* every call site propagates it as Python does (the statements after the  *)
(* raising call are skipped).                                              *)
(***************************************************************************)
EXTENDS Integers, Sequences, FiniteSets, TLC

(***************************************************************************)
(* Bounds of the checked inputs.                                           *)
(***************************************************************************)
\* Largest number of operator nodes (Add, Sub, Mul, Div) of an enumerated tree.
MaxOps == 2

\* The integer literals the enumerated trees are built from.
Literals == {-2, 0, 1, 2}

\* The values of x_value handed to evaluate.
XValues == {-1, 0, 2, 4}

(***************************************************************************)
(* Construction: the classes' __init__ methods.                            *)
(***************************************************************************)
X == [tag |-> "X"]

\* the class Int (the name Int is the set of integers here)
Int_(i) == [tag |-> "Int", i |-> i]

Add(p1, p2) == [tag |-> "Add", p1 |-> p1, p2 |-> p2]

Mul(p1, p2) == [tag |-> "Mul", p1 |-> p1, p2 |-> p2]

Sub(p1, p2) == [tag |-> "Sub", p1 |-> p1, p2 |-> p2]

Div(p1, p2) == [tag |-> "Div", p1 |-> p1, p2 |-> p2]

\* isinstance(p, cls), cls one class or a tuple of classes
isinstance(p, classes) == p.tag \in classes

(***************************************************************************)
(* Python exceptions and integer floor division.                           *)
(***************************************************************************)
ZeroDivisionError == [raise |-> "ZeroDivisionError"]

Raised(v) == "raise" \in DOMAIN v

\* Division truncating toward zero, as int(a / b) gives it (not what // does).
truncdiv(a, b) ==
    IF b = 0 THEN ZeroDivisionError
    ELSE LET m == (IF a < 0 THEN 0 - a ELSE a) \div (IF b < 0 THEN 0 - b ELSE b)
         IN  [q |-> IF (a < 0) = (b < 0) THEN m ELSE 0 - m]

\* Python's a // b on ints: the floor of the quotient, ZeroDivisionError for b = 0.
\* The result is the record [q |-> quotient], or the exception record.
floordiv(a, b) == IF b = 0 THEN ZeroDivisionError ELSE [q |-> a \div b]

(***************************************************************************)
(* evaluate                                                                *)
(***************************************************************************)
RECURSIVE evaluate(_, _)

X_evaluate(self, x_value) == Int_(x_value)

Int_evaluate(self, x_value) == Int_(self.i)

Add_evaluate(self, x_value) ==
    LET v1 == evaluate(self.p1, x_value)
        v2 == evaluate(self.p2, x_value)
    IN  IF Raised(v1) THEN v1
        ELSE IF Raised(v2) THEN v2
        ELSE Int_(v1.i + v2.i)

\* Mutant of Mul_evaluate: the right operand is not evaluated when the left is 0.
Mul_evaluate_short_circuit(self, x_value) ==
    LET v1 == evaluate(self.p1, x_value)
        v2 == evaluate(self.p2, x_value)
    IN  IF Raised(v1) THEN v1
        ELSE IF v1.i = 0 THEN Int_(0)
        ELSE IF Raised(v2) THEN v2
        ELSE Int_(v1.i * v2.i)

Mul_evaluate(self, x_value) ==
    LET v1 == evaluate(self.p1, x_value)
        v2 == evaluate(self.p2, x_value)
    IN  IF Raised(v1) THEN v1
        ELSE IF Raised(v2) THEN v2
        ELSE Int_(v1.i * v2.i)

Sub_evaluate(self, x_value) ==
    LET v1 == evaluate(self.p1, x_value)
        v2 == evaluate(self.p2, x_value)
    IN  IF Raised(v1) THEN v1
        ELSE IF Raised(v2) THEN v2
        ELSE Int_(v1.i - v2.i)

\* Mutant of Div_evaluate: the quotient truncates toward zero.
Div_evaluate_truncating(self, x_value) ==
    LET v1 == evaluate(self.p1, x_value)
        v2 == evaluate(self.p2, x_value)
    IN  IF Raised(v1) THEN v1
        ELSE IF Raised(v2) THEN v2
        ELSE IF v2.i = 0 THEN ZeroDivisionError
        ELSE LET d == truncdiv(v1.i, v2.i)
             IN  IF Raised(d) THEN d ELSE Int_(d.q)

Div_evaluate(self, x_value) ==
    LET v1 == evaluate(self.p1, x_value)
        v2 == evaluate(self.p2, x_value)
    IN  IF Raised(v1) THEN v1
        ELSE IF Raised(v2) THEN v2
        ELSE IF v2.i = 0 THEN ZeroDivisionError
        ELSE LET d == floordiv(v1.i, v2.i)
             IN  IF Raised(d) THEN d ELSE Int_(d.q)

\* p.evaluate(x_value): dispatch on the class of p
evaluate(p, x_value) ==
    CASE p.tag = "X"   -> X_evaluate(p, x_value)
      [] p.tag = "Int" -> Int_evaluate(p, x_value)
      [] p.tag = "Add" -> Add_evaluate(p, x_value)
      [] p.tag = "Mul" -> Mul_evaluate(p, x_value)
      [] p.tag = "Sub" -> Sub_evaluate(p, x_value)
      [] p.tag = "Div" -> Div_evaluate(p, x_value)

(***************************************************************************)
(* simplify                                                                *)
(***************************************************************************)
RECURSIVE simplify(_)

X_simplify(self) == self

Int_simplify(self) == self

Add_simplify(self) ==
    LET s1 == simplify(self.p1)
        s2 == simplify(self.p2)
    IN  IF Raised(s1) THEN s1
        ELSE IF Raised(s2) THEN s2
        ELSE IF isinstance(s1, {"Int"}) /\ s1.i = 0 THEN s2
        ELSE IF isinstance(s2, {"Int"}) /\ s2.i = 0 THEN s1
        ELSE IF isinstance(s1, {"Int"}) /\ isinstance(s2, {"Int"})
             THEN Int_(s1.i + s2.i)
        ELSE Add(s1, s2)

\* Mutant of Mul_simplify: the zero rule looks at the left operand only.
Mul_simplify_left_zero_only(self) ==
    LET s1 == simplify(self.p1)
        s2 == simplify(self.p2)
    IN  IF Raised(s1) THEN s1
        ELSE IF Raised(s2) THEN s2
        ELSE IF isinstance(s1, {"Int"}) /\ s1.i = 0 THEN Int_(0)
        ELSE IF isinstance(s1, {"Int"}) /\ s1.i = 1 THEN s2
        ELSE IF isinstance(s2, {"Int"}) /\ s2.i = 1 THEN s1
        ELSE IF isinstance(s1, {"Int"}) /\ isinstance(s2, {"Int"})
             THEN Int_(s1.i * s2.i)
        ELSE Mul(s1, s2)

Mul_simplify(self) ==
    LET s1 == simplify(self.p1)
        s2 == simplify(self.p2)
    IN  IF Raised(s1) THEN s1
        ELSE IF Raised(s2) THEN s2
        ELSE IF \/ (isinstance(s1, {"Int"}) /\ s1.i = 0)
                \/ (isinstance(s2, {"Int"}) /\ s2.i = 0)
             THEN Int_(0)
        ELSE IF isinstance(s1, {"Int"}) /\ s1.i = 1 THEN s2
        ELSE IF isinstance(s2, {"Int"}) /\ s2.i = 1 THEN s1
        ELSE IF isinstance(s1, {"Int"}) /\ isinstance(s2, {"Int"})
             THEN Int_(s1.i * s2.i)
        ELSE Mul(s1, s2)

\* Mutant of Sub_simplify: X - 0 returns the operand as given, not simplified.
Sub_simplify_returns_operand(self) ==
    LET s1 == simplify(self.p1)
        s2 == simplify(self.p2)
    IN  IF Raised(s1) THEN s1
        ELSE IF Raised(s2) THEN s2
        ELSE IF isinstance(s2, {"Int"}) /\ s2.i = 0 THEN self.p1
        ELSE IF isinstance(s1, {"Int"}) /\ isinstance(s2, {"Int"})
             THEN Int_(s1.i - s2.i)
        ELSE Sub(s1, s2)

Sub_simplify(self) ==
    LET s1 == simplify(self.p1)
        s2 == simplify(self.p2)
    IN  IF Raised(s1) THEN s1
        ELSE IF Raised(s2) THEN s2
        ELSE IF isinstance(s2, {"Int"}) /\ s2.i = 0 THEN s1
        ELSE IF isinstance(s1, {"Int"}) /\ isinstance(s2, {"Int"})
             THEN Int_(s1.i - s2.i)
        ELSE Sub(s1, s2)

\* Mutant of Div_simplify: constants are folded with a truncating quotient.
Div_simplify_truncating(self) ==
    LET s1 == simplify(self.p1)
        s2 == simplify(self.p2)
    IN  IF Raised(s1) THEN s1
        ELSE IF Raised(s2) THEN s2
        ELSE IF isinstance(s1, {"Int"}) /\ s1.i = 0
             THEN IF isinstance(s2, {"Int"}) /\ s2.i = 0
                  THEN Div(s1, s2)
                  ELSE Int_(0)
        ELSE IF isinstance(s2, {"Int"}) /\ s2.i = 1 THEN s1
        ELSE IF isinstance(s1, {"Int"}) /\ isinstance(s2, {"Int"})
             THEN IF s2.i = 0
                  THEN Div(s1, s2)
                  ELSE LET d == truncdiv(s1.i, s2.i)
                       IN  IF Raised(d) THEN d ELSE Int_(d.q)
        ELSE Div(s1, s2)

\* Mutant of Div_simplify: constants are folded without the check for a 0 divisor.
Div_simplify_unguarded(self) ==
    LET s1 == simplify(self.p1)
        s2 == simplify(self.p2)
    IN  IF Raised(s1) THEN s1
        ELSE IF Raised(s2) THEN s2
        ELSE IF isinstance(s1, {"Int"}) /\ s1.i = 0
             THEN IF isinstance(s2, {"Int"}) /\ s2.i = 0
                  THEN Div(s1, s2)
                  ELSE Int_(0)
        ELSE IF isinstance(s2, {"Int"}) /\ s2.i = 1 THEN s1
        ELSE IF isinstance(s1, {"Int"}) /\ isinstance(s2, {"Int"})
             THEN LET d == floordiv(s1.i, s2.i)
                  IN  IF Raised(d) THEN d ELSE Int_(d.q)
        ELSE Div(s1, s2)

\* Mutant of Div_simplify: the rule X / 1 -> X is missing.
Div_simplify_no_one_rule(self) ==
    LET s1 == simplify(self.p1)
        s2 == simplify(self.p2)
    IN  IF Raised(s1) THEN s1
        ELSE IF Raised(s2) THEN s2
        ELSE IF isinstance(s1, {"Int"}) /\ s1.i = 0
             THEN IF isinstance(s2, {"Int"}) /\ s2.i = 0
                  THEN Div(s1, s2)
                  ELSE Int_(0)
        ELSE IF isinstance(s1, {"Int"}) /\ isinstance(s2, {"Int"})
             THEN IF s2.i = 0
                  THEN Div(s1, s2)
                  ELSE LET d == floordiv(s1.i, s2.i)
                       IN  IF Raised(d) THEN d ELSE Int_(d.q)
        ELSE Div(s1, s2)

Div_simplify(self) ==
    LET s1 == simplify(self.p1)
        s2 == simplify(self.p2)
    IN  IF Raised(s1) THEN s1
        ELSE IF Raised(s2) THEN s2
        ELSE IF isinstance(s1, {"Int"}) /\ s1.i = 0
             THEN IF isinstance(s2, {"Int"}) /\ s2.i = 0
                  THEN Div(s1, s2)
                  ELSE Int_(0)
        ELSE IF isinstance(s2, {"Int"}) /\ s2.i = 1 THEN s1
        ELSE IF isinstance(s1, {"Int"}) /\ isinstance(s2, {"Int"})
             THEN IF s2.i = 0
                  THEN Div(s1, s2)
                  ELSE LET d == floordiv(s1.i, s2.i)
                       IN  IF Raised(d) THEN d ELSE Int_(d.q)
        ELSE Div(s1, s2)

\* p.simplify(): dispatch on the class of p
simplify(p) ==
    CASE p.tag = "X"   -> X_simplify(p)
      [] p.tag = "Int" -> Int_simplify(p)
      [] p.tag = "Add" -> Add_simplify(p)
      [] p.tag = "Mul" -> Mul_simplify(p)
      [] p.tag = "Sub" -> Sub_simplify(p)
      [] p.tag = "Div" -> Div_simplify(p)

(***************************************************************************)
(* __repr__                                                                *)
(***************************************************************************)
RECURSIVE repr(_)

\* str(d) for one decimal digit d
digit(d) ==
    CASE d = 0 -> "0" [] d = 1 -> "1" [] d = 2 -> "2" [] d = 3 -> "3"
      [] d = 4 -> "4" [] d = 5 -> "5" [] d = 6 -> "6" [] d = 7 -> "7"
      [] d = 8 -> "8" [] d = 9 -> "9"

RECURSIVE decimal(_)
\* the decimal digits of a natural number, most significant first
decimal(n) == IF n < 10 THEN digit(n) ELSE decimal(n \div 10) \o digit(n % 10)

\* str(i) of a Python int: a minus sign for a negative, then the decimal digits
str(i) == IF i < 0 THEN "-" \o decimal(0 - i) ELSE decimal(i)

X_repr(self) == "X"

Int_repr(self) == str(self.i)

Add_repr(self) == repr(self.p1) \o " + " \o repr(self.p2)

\* the local function fmt of Mul.__repr__
Mul_fmt(p) == IF isinstance(p, {"Add", "Sub"}) THEN "( " \o repr(p) \o " )" ELSE repr(p)

Mul_repr(self) == Mul_fmt(self.p1) \o " * " \o Mul_fmt(self.p2)

\* Mutant of Sub_repr: a Sub left operand is parenthesized as well.
Sub_repr_left_sub(self) ==
    LET left  == IF isinstance(self.p1, {"Add", "Sub"})
                 THEN "( " \o repr(self.p1) \o " )" ELSE repr(self.p1)
        right == IF isinstance(self.p2, {"Add", "Sub"})
                 THEN "( " \o repr(self.p2) \o " )" ELSE repr(self.p2)
    IN  left \o " - " \o right

Sub_repr(self) ==
    LET left  == IF isinstance(self.p1, {"Add"})
                 THEN "( " \o repr(self.p1) \o " )" ELSE repr(self.p1)
        right == IF isinstance(self.p2, {"Add", "Sub"})
                 THEN "( " \o repr(self.p2) \o " )" ELSE repr(self.p2)
    IN  left \o " - " \o right

\* the local function fmt of Div.__repr__
Div_fmt(p) == IF isinstance(p, {"Add", "Sub"}) THEN "( " \o repr(p) \o " )" ELSE repr(p)

Div_repr(self) == Div_fmt(self.p1) \o " / " \o Div_fmt(self.p2)

\* repr(p): dispatch on the class of p
repr(p) ==
    CASE p.tag = "X"   -> X_repr(p)
      [] p.tag = "Int" -> Int_repr(p)
      [] p.tag = "Add" -> Add_repr(p)
      [] p.tag = "Mul" -> Mul_repr(p)
      [] p.tag = "Sub" -> Sub_repr(p)
      [] p.tag = "Div" -> Div_repr(p)

(***************************************************************************)
(* The trees the module itself builds, and the enumerated trees.           *)
(***************************************************************************)
poly == Add(Add(Int_(4), Int_(3)), Add(X, Mul(Int_(1), Add(Mul(X, X), Int_(1)))))

sub_poly == Sub(Int_(10), Int_(3))

div_poly == Div(Int_(15), Int_(3))

simple_poly == Add(Sub(Mul(Int_(2), X), Int_(1)), Div(Int_(6), Int_(2)))

Leaves == {X} \cup {Int_(i) : i \in Literals}

RECURSIVE ops(_)
\* the number of operator nodes of a tree
ops(p) == IF p.tag \in {"X", "Int"} THEN 0 ELSE 1 + ops(p.p1) + ops(p.p2)

RECURSIVE TreesWithOps(_)
\* every tree with exactly n operator nodes over Leaves
TreesWithOps(n) ==
    IF n = 0 THEN Leaves
    ELSE UNION { { [tag |-> op, p1 |-> a, p2 |-> b] :
                       op \in {"Add", "Sub", "Mul", "Div"},
                       a \in TreesWithOps(k), b \in TreesWithOps(n - 1 - k) } :
                 k \in 0 .. (n - 1) }

\* The operand a construction step joins to the tree built so far: of the two
\* operands of a node the smaller has at most half of the remaining operators,
\* so that every tree of at most MaxOps operators is built.
Operands == UNION { TreesWithOps(n) : n \in 0 .. ((MaxOps - 1) \div 2) }

\* further trees: the ones of the floor-division and parenthesization examples
ExampleTrees ==
    { Div(Int_(7), Int_(2)), Div(Int_(-7), Int_(2)), Div(Int_(5), Int_(0)),
      Add(Int_(4), Int_(3)),
      Mul(Add(Int_(1), Int_(2)), Int_(3)),
      Sub(Int_(10), Sub(Int_(3), Int_(1))) }

(***************************************************************************)
(* The state machine: a caller builds a tree bottom-up and calls the       *)
(* methods of the tree it holds; no call changes the tree.                 *)
(***************************************************************************)
VARIABLES
    expr,     \* the tree the caller holds
    call,     \* the last call made: its method and arguments
    result    \* what that call returned or raised; a returned str object is
              \* the record [tag |-> "str", value |-> <its text>]

vars == <<expr, call, result>>

Init ==
    /\ expr \in Leaves \cup {poly, sub_poly, div_poly, simple_poly} \cup ExampleTrees
    /\ call = [method |-> "__init__"]
    /\ result = expr

\* cls(expr, other) or cls(other, expr) for one of the four operator classes
Construct ==
    /\ ops(expr) < MaxOps
    /\ \E cls \in {"Add", "Sub", "Mul", "Div"}, other \in Operands, left \in BOOLEAN :
          /\ ops(expr) + ops(other) + 1 <= MaxOps
          /\ expr' = IF left THEN [tag |-> cls, p1 |-> expr, p2 |-> other]
                             ELSE [tag |-> cls, p1 |-> other, p2 |-> expr]
    /\ call' = [method |-> "__init__"]
    /\ result' = expr'

Evaluate(x_value) ==
    /\ call' = [method |-> "evaluate", x_value |-> x_value]
    /\ result' = evaluate(expr, x_value)
    /\ UNCHANGED expr

Simplify ==
    /\ call' = [method |-> "simplify"]
    /\ result' = simplify(expr)
    /\ UNCHANGED expr

Repr ==
    /\ call' = [method |-> "__repr__"]
    /\ result' = [tag |-> "str", value |-> repr(expr)]
    /\ UNCHANGED expr

Next ==
    \/ Construct
    \/ \E x_value \in XValues : Evaluate(x_value)
    \/ Simplify
    \/ Repr

Spec == Init /\ [][Next]_vars

(***************************************************************************)
(* Notions the properties are stated with.                                 *)
(***************************************************************************)
RECURSIVE Subtrees(_)
\* every node of a tree, the tree itself included
Subtrees(p) ==
    IF p.tag \in {"X", "Int"} THEN {p}
    ELSE {p} \cup Subtrees(p.p1) \cup Subtrees(p.p2)

RECURSIVE IsExpression(_)
\* v is an object of one of the six classes, all the way down
IsExpression(v) ==
    /\ "tag" \in DOMAIN v
    /\ CASE v.tag = "X" -> DOMAIN v = {"tag"}
         [] v.tag = "Int" -> DOMAIN v = {"tag", "i"} /\ v.i \in Int
         [] v.tag \in {"Add", "Sub", "Mul", "Div"} ->
                /\ DOMAIN v = {"tag", "p1", "p2"}
                /\ IsExpression(v.p1)
                /\ IsExpression(v.p2)
         [] OTHER -> FALSE

IsZero(p) == p = Int_(0)

IsOne(p) == p = Int_(1)

IsConstant(p) == p.tag = "Int"

\* some Div node of p has a right subtree that evaluates to 0 at x_value
DividesByZero(p, x_value) ==
    \E d \in Subtrees(p) : d.tag = "Div" /\ evaluate(d.p2, x_value) = Int_(0)

Abs(n) == IF n < 0 THEN 0 - n ELSE n

\* the quotient rounded toward negative infinity: the largest q with q <= a / b
FloorQuotient(a, b) ==
    CHOOSE q \in (0 - Abs(a) - 1) .. (Abs(a) + 1) :
        IF b > 0 THEN q * b <= a /\ a < (q + 1) * b
                 ELSE q * b >= a /\ a > (q + 1) * b

RECURSIVE FoldedValue(_, _)
\* x_value substituted for every X, folded bottom-up with +, -, * and floor
\* division (defined where no divisor is 0)
FoldedValue(p, x_value) ==
    CASE p.tag = "X"   -> x_value
      [] p.tag = "Int" -> p.i
      [] p.tag = "Add" -> FoldedValue(p.p1, x_value) + FoldedValue(p.p2, x_value)
      [] p.tag = "Sub" -> FoldedValue(p.p1, x_value) - FoldedValue(p.p2, x_value)
      [] p.tag = "Mul" -> FoldedValue(p.p1, x_value) * FoldedValue(p.p2, x_value)
      [] p.tag = "Div" -> FloorQuotient(FoldedValue(p.p1, x_value),
                                        FoldedValue(p.p2, x_value))

\* the operand child on the given side of a node of class parent is parenthesized
Parenthesized(parent, side, child) ==
    \/ parent \in {"Mul", "Div"} /\ child \in {"Add", "Sub"}
    \/ parent = "Sub" /\ side = "left" /\ child = "Add"
    \/ parent = "Sub" /\ side = "right" /\ child \in {"Add", "Sub"}

Symbol(cls) ==
    CASE cls = "Add" -> " + " [] cls = "Sub" -> " - "
      [] cls = "Mul" -> " * " [] cls = "Div" -> " / "

RECURSIVE Rendering(_)
\* the text of a tree under the parenthesization table above
Rendering(p) ==
    CASE p.tag = "X"   -> "X"
      [] p.tag = "Int" -> ToString(p.i)
      [] OTHER ->
            LET operand(side, c) ==
                    IF Parenthesized(p.tag, side, c.tag)
                    THEN "( " \o Rendering(c) \o " )"
                    ELSE Rendering(c)
            IN  operand("left", p.p1) \o Symbol(p.tag) \o operand("right", p.p2)

\* every node of p is irreducible under the rules of simplify
NormalForm(p) ==
    \A n \in Subtrees(p) :
        /\ n.tag = "Add" => ~IsZero(n.p1) /\ ~IsZero(n.p2)
        /\ n.tag = "Sub" => ~IsZero(n.p2)
        /\ n.tag = "Mul" => /\ ~IsZero(n.p1) /\ ~IsZero(n.p2)
                            /\ ~IsOne(n.p1) /\ ~IsOne(n.p2)
        /\ n.tag = "Div" => /\ ~IsOne(n.p2)
                            /\ IsZero(n.p1) => IsZero(n.p2)
                            /\ (IsConstant(n.p1) /\ IsConstant(n.p2)) => IsZero(n.p2)
        /\ n.tag \in {"Add", "Sub", "Mul"} => ~(IsConstant(n.p1) /\ IsConstant(n.p2))

(***************************************************************************)
(* The properties.                                                         *)
(***************************************************************************)

\* C1: whenever evaluate(expr, x) returns, evaluate(simplify(expr), x) returns
\* too, and returns an Int of the same value.
C1_SimplifyPreservesValue ==
    (call.method = "evaluate" /\ ~Raised(result)) =>
        /\ result.tag = "Int"
        /\ evaluate(simplify(expr), call.x_value) = result

\* C1 witness: evaluate returned for a tree with X and a Div that simplify rewrites
C1_Witness ==
    /\ call.method = "evaluate"
    /\ ~Raised(result)
    /\ simplify(expr) # expr
    /\ X \in Subtrees(expr)
    /\ \E d \in Subtrees(expr) : d.tag = "Div"

\* C2: simplify is idempotent: simplifying the tree simplify returned gives the
\* same tree, with the same text.
C2_SimplifyIdempotent ==
    call.method = "simplify" =>
        /\ simplify(result) = result
        /\ repr(simplify(result)) = repr(result)

\* C2 witness: simplify rewrote a tree into a Div with denominator Int(0)
C2_Witness ==
    /\ call.method = "simplify"
    /\ result # expr
    /\ result.tag = "Div"
    /\ IsZero(result.p2)

\* C3: evaluate raises ZeroDivisionError exactly when some Div node's right
\* subtree evaluates to 0 at x; otherwise it returns an Int; nothing else is raised.
C3_RaisesIffDividesByZero ==
    call.method = "evaluate" =>
        /\ (result = ZeroDivisionError) <=> DividesByZero(expr, call.x_value)
        /\ Raised(result) => result = ZeroDivisionError
        /\ ~Raised(result) => result.tag = "Int" /\ DOMAIN result = {"tag", "i"}

\* C3 witness: a Mul whose one operand is Int(0) and whose other holds the failing Div
C3_Witness ==
    /\ call.method = "evaluate"
    /\ result = ZeroDivisionError
    /\ expr.tag = "Mul"
    /\ IsZero(expr.p1)
    /\ expr.p2.tag = "Div"

\* C4: a returned value is x substituted for X and folded bottom-up with floor
\* division; the three examples; a tree without X evaluates alike for every x.
C4_EvaluateFolds ==
    (call.method = "evaluate" /\ ~Raised(result)) =>
        /\ result = Int_(FoldedValue(expr, call.x_value))
        /\ expr = Div(Int_(-7), Int_(2)) => result = Int_(-4)
        /\ expr = Div(Int_(7), Int_(2)) => result = Int_(3)
        /\ (expr = simple_poly /\ call.x_value = 4) => result = Int_(10)
        /\ X \notin Subtrees(expr) =>
               \A x_value \in XValues : evaluate(expr, x_value) = result

\* C4 witness: Div(Int(-7), Int(2)) evaluated to Int(-4)
C4_Witness ==
    /\ call.method = "evaluate"
    /\ expr = Div(Int_(-7), Int_(2))
    /\ result = Int_(-4)

\* C5: simplify always returns an expression; for a Div whose simplified right
\* operand is Int(0) it returns the Div of the simplified operands, and
\* evaluating that raises ZeroDivisionError for every x.
C5_ZeroGuardPreserved ==
    call.method = "simplify" =>
        /\ ~Raised(result)
        /\ IsExpression(result)
        /\ (expr.tag = "Div" /\ IsZero(simplify(expr.p2))) =>
               /\ result = Div(simplify(expr.p1), Int_(0))
               /\ \A x_value \in XValues : evaluate(result, x_value) = ZeroDivisionError

\* C5 witness: a Div whose operands both simplify to Int(0), one of them by a rewrite
C5_Witness ==
    /\ call.method = "simplify"
    /\ expr.tag = "Div"
    /\ IsZero(simplify(expr.p1))
    /\ IsZero(simplify(expr.p2))
    /\ ops(expr) > 1
    /\ result.tag = "Div"

\* C6: for every tree e, e + 0, 0 + e, e - 0, e * 1, 1 * e and e / 1 simplify
\* to simplify(e), and e * 0 and 0 * e simplify to Int(0) (0 * 1 included).
C6_IdentityRules ==
    call.method = "simplify" =>
        /\ simplify(Add(expr, Int_(0))) = result
        /\ simplify(Add(Int_(0), expr)) = result
        /\ simplify(Sub(expr, Int_(0))) = result
        /\ simplify(Mul(expr, Int_(1))) = result
        /\ simplify(Mul(Int_(1), expr)) = result
        /\ simplify(Div(expr, Int_(1))) = result
        /\ simplify(Mul(expr, Int_(0))) = Int_(0)
        /\ simplify(Mul(Int_(0), expr)) = Int_(0)
        /\ (expr.tag = "Add" /\ IsZero(expr.p2)) => result = simplify(expr.p1)
        /\ (expr.tag = "Add" /\ IsZero(expr.p1)) => result = simplify(expr.p2)
        /\ (expr.tag = "Sub" /\ IsZero(expr.p2)) => result = simplify(expr.p1)
        /\ (expr.tag = "Mul" /\ IsOne(expr.p2)) => result = simplify(expr.p1)
        /\ (expr.tag = "Mul" /\ IsOne(expr.p1)) => result = simplify(expr.p2)
        /\ (expr.tag = "Div" /\ IsOne(expr.p2)) => result = simplify(expr.p1)
        /\ (expr.tag = "Mul" /\ (IsZero(expr.p1) \/ IsZero(expr.p2))) => result = Int_(0)

\* C6 witness: X * 0 under a further operator simplified to Int(0)
C6_Witness ==
    /\ call.method = "simplify"
    /\ expr.tag = "Mul"
    /\ IsZero(expr.p2)
    /\ X \in Subtrees(expr.p1)
    /\ ops(expr.p1) > 0
    /\ result = Int_(0)

\* C7: __repr__ parenthesizes exactly: an Add or Sub operand of Mul or Div, an
\* Add left operand of Sub, an Add or Sub right operand of Sub; X is "X", an
\* Int its decimal string; the two examples.
C7_ReprParenthesization ==
    call.method = "__repr__" =>
        /\ result.value = Rendering(expr)
        /\ expr = Mul(Add(Int_(1), Int_(2)), Int_(3)) => result.value = "( 1 + 2 ) * 3"
        /\ expr = Sub(Int_(10), Sub(Int_(3), Int_(1))) => result.value = "10 - ( 3 - 1 )"

\* C7 witness: Sub(Int(10), Sub(Int(3), Int(1))) rendered
C7_Witness ==
    /\ call.method = "__repr__"
    /\ expr = Sub(Int_(10), Sub(Int_(3), Int_(1)))
    /\ result.value = "10 - ( 3 - 1 )"

\* C8: if evaluate(expr, x) raises ZeroDivisionError then evaluate(simplify(expr), x)
\* raises it too.
C8_SimplifyPreservesFailure ==
    (call.method = "evaluate" /\ result = ZeroDivisionError) =>
        evaluate(simplify(expr), call.x_value) = ZeroDivisionError

\* C9: two trees with the same text have the same outcome of evaluate at every
\* x (stated for the trees of at most MaxOps operator nodes; trees with the
\* same text have the same number of them).
C9_ReprPreservesMeaning ==
    (call.method = "__repr__" /\ ops(expr) <= MaxOps) =>
        \A other \in TreesWithOps(ops(expr)) :
            repr(other) = result.value =>
                \A x_value \in XValues :
                    evaluate(other, x_value) = evaluate(expr, x_value)

\* C10: every node of a tree simplify returned is in normal form.
C10_ResultInNormalForm ==
    call.method = "simplify" => NormalForm(result)

\* C10 witness: simplify rewrote a tree and left at least two operator nodes
C10_Witness ==
    /\ call.method = "simplify"
    /\ result # expr
    /\ ops(result) >= 2

=============================================================================
